---- MODULE Spec2Model ----
(***************************************************************************)
(* Stock watch list service: split adjustment (splitAdjustmentService.js), *)
(* the time-series store and the manual refresh (dataRefreshService.js),   *)
(* the upstream provider client (alphaVantageService.js) and the startup   *)
(* refresh scheduler (startupRefreshService.js, index.js), and the query   *)
(* service (queryService.js) with its routes.                              *)
(*                                                                         *)
(* Conventions.  Dates are day numbers 1..MaxDate (the code compares ISO   *)
(* date strings, whose order is the order of the days).  Prices are        *)
(* integers in units of 1e-4 (the precision of toFixed(4)).  A split ratio *)
(* and an adjustment factor is a rational <<num, den>>.  A NULL column is  *)
(* the value 0 for a date and NoRow for a missing row.                     *)
(***************************************************************************)
EXTENDS Integers, Sequences, FiniteSets, TLC

VARIABLES
    today,          \* new Date().toISOString().split('T')[0], as a day number
    apiKeyMissing,  \* AlphaVantageService.apiKeyMissing of the running process
    tracked_stocks, \* table tracked_stocks: symbol -> row or NoRow
    stock_splits,   \* table stock_splits: symbol -> split_date -> ratio or NoSplit
    historical,     \* table historical_stock_data: symbol -> date -> row or NoRow
    phase,          \* where the process is: "boot", "startup", "listening", "multi"
    run,            \* the refresh run in progress or last finished
    callLog,        \* upstream provider calls issued by the current run, in order
    sinceCall,      \* "none" | "nodelay" | "delayed": time since the run's last call
    step,           \* what the last step of a refresh did to one symbol
    cleanRun,       \* day of the last startup run that finished without any error, or 0
    boots,          \* number of restarts of the process so far
    ops,            \* number of state-changing HTTP requests so far
    faults,         \* number of failures (database, provider) injected so far
    ledger,         \* what the refresh calls of the current day have done so far
    probe,          \* the direct call of a split-adjustment function with its
                    \* result, or the query in flight
    handlers        \* the refresh requests the HTTP server is serving at once

vars == <<today, apiKeyMissing, tracked_stocks, stock_splits, historical, phase,
          run, callLog, sinceCall, step, cleanRun, boots, ops, faults, ledger, probe,
          handlers>>

----------------------------------------------------------------------------
(* Bounds of the model *)

MaxDate == 3
Window == 2
MaxDay == 2
MaxFetched == 1
MaxRestarts == 1
MaxOps == 1
MaxFaults == 1
MaxHandlers == 2

SymbolOrder == <<"AAPL", "META">>
Symbols == {SymbolOrder[i] : i \in 1..Len(SymbolOrder)}
Dates == 1..MaxDate
SplitDates == 2..MaxDate    \* a split on the first date affects no record
RatioSet == {<<2, 1>>, <<1, 2>>}

NoRow == [absent |-> TRUE]
NoSplit == <<>>

----------------------------------------------------------------------------
(* Rational arithmetic for ratios and factors, and the two roundings *)

RECURSIVE Gcd(_, _)
Gcd(a, b) == IF b = 0 THEN a ELSE Gcd(b, a % b)

Norm(f) == LET g == Gcd(f[1], f[2]) IN <<f[1] \div g, f[2] \div g>>

One == <<1, 1>>

FMul(a, b) == Norm(<<a[1] * b[1], a[2] * b[2]>>)

DivFixed4Mutant(price, f) == (price * f[2]) \div f[1]

\* Number((price / factor).toFixed(4)) on a price held in units of 1e-4
DivFixed4(price, f) == (2 * price * f[2] + f[1]) \div (2 * f[1])

\* Math.round(volume * factor)
MulRound(volume, f) == (2 * volume * f[1] + f[2]) \div (2 * f[2])

----------------------------------------------------------------------------
(* splitAdjustmentService.js *)

\* SELECT ... FROM stock_splits WHERE symbol = ? ORDER BY split_date ASC
RECURSIVE SplitsFrom(_, _, _)
SplitsFrom(reg, symbol, d) ==
    IF d > MaxDate THEN <<>>
    ELSE (IF reg[symbol][d] = NoSplit THEN <<>>
          ELSE <<[symbol |-> symbol, split_date |-> d, split_ratio |-> reg[symbol][d]]>>)
         \o SplitsFrom(reg, symbol, d + 1)

getStockSplits(reg, symbol) == SplitsFrom(reg, symbol, 1)

SplitAppliesMutant(split, date) == split.split_date >= date

\* split => split.split_date > date
SplitApplies(split, date) == split.split_date > date

\* let adjustmentFactor = 1.0; for (const split of appliedSplits) adjustmentFactor *= split.split_ratio
RECURSIVE CumulativeFactor(_, _, _)
CumulativeFactor(splits, date, i) ==
    IF i > Len(splits) THEN One
    ELSE IF SplitApplies(splits[i], date)
         THEN FMul(splits[i].split_ratio, CumulativeFactor(splits, date, i + 1))
         ELSE CumulativeFactor(splits, date, i + 1)

\* regFail: the registry read (db.all) fails; the catch returns 1.0
getSplitAdjustmentFactor(reg, symbol, date, regFail) ==
    IF regFail THEN One
    ELSE CumulativeFactor(getStockSplits(reg, symbol), date, 1)

Unadjusted(record) ==
    [symbol |-> record.symbol, date |-> record.date,
     open |-> record.open, high |-> record.high, low |-> record.low,
     close |-> record.close, adjusted_close |-> record.close,
     volume |-> record.volume,
     split_adjusted |-> FALSE, adjustment_factor |-> One]

ApplyFactor(record, f) ==
    IF f = One THEN Unadjusted(record)
    ELSE [symbol |-> record.symbol, date |-> record.date,
          open |-> DivFixed4(record.open, f), high |-> DivFixed4(record.high, f),
          low |-> DivFixed4(record.low, f), close |-> DivFixed4(record.close, f),
          adjusted_close |-> DivFixed4(record.close, f),
          volume |-> MulRound(record.volume, f),
          split_adjusted |-> TRUE, adjustment_factor |-> f]

adjustStockRecordMutant(reg, record, regFail) == Unadjusted(record)

adjustStockRecord(reg, record, regFail) ==
    ApplyFactor(record, getSplitAdjustmentFactor(reg, record.symbol, record.date, regFail))

adjustStockRecordsMutant(reg, stockRecords, regFail) ==
    IF Len(stockRecords) = 0 \/ regFail THEN <<>>
    ELSE [i \in 1..Len(stockRecords) |->
            ApplyFactor(stockRecords[i],
                CumulativeFactor(getStockSplits(reg, stockRecords[1].symbol),
                                 stockRecords[i].date, 1))]

\* one registry read, for the symbol of the first record, reused for every record
adjustStockRecords(reg, stockRecords, regFail) ==
    IF Len(stockRecords) = 0 THEN stockRecords
    ELSE IF regFail THEN [i \in 1..Len(stockRecords) |-> Unadjusted(stockRecords[i])]
    ELSE LET splits == getStockSplits(reg, stockRecords[1].symbol)
         IN  IF Len(splits) = 0
             THEN [i \in 1..Len(stockRecords) |-> Unadjusted(stockRecords[i])]
             ELSE [i \in 1..Len(stockRecords) |->
                     ApplyFactor(stockRecords[i],
                                 CumulativeFactor(splits, stockRecords[i].date, 1))]

\* INSERT OR REPLACE INTO stock_splits
addStockSplit(reg, symbol, splitDate, splitRatio) ==
    [reg EXCEPT ![symbol][splitDate] = splitRatio]

----------------------------------------------------------------------------
(* alphaVantageService.js: what the provider returns *)

\* one entry of 'Time Series (Daily)' converted by fetchDailyData
RawRecord(symbol, d) ==
    [symbol |-> symbol, date |-> d,
     open |-> 1000001 + 20000 * d, high |-> 1050001 + 20000 * d,
     low |-> 950000 + 20000 * d, close |-> 1010003 + 20000 * d,
     adjusted_close |-> 1010003 + 20000 * d,
     volume |-> 1001 + 10 * d]

\* newest first, from date `hi` down to date `lo`
RECURSIVE Series(_, _, _)
Series(symbol, hi, lo) ==
    IF hi < lo THEN <<>> ELSE <<RawRecord(symbol, hi)>> \o Series(symbol, hi - 1, lo)

\* outputsize=compact: the most recent Window days; outputsize=full: everything
DailySeries(symbol, outputSize) ==
    IF outputSize = "compact"
    THEN Series(symbol, MaxDate, IF MaxDate > Window THEN MaxDate - Window + 1 ELSE 1)
    ELSE Series(symbol, MaxDate, 1)

fetchFullHistoricalData(symbol) ==
    [fn |-> "DAILY_FULL", data |-> DailySeries(symbol, "full")]

\* fetchDailyData(symbol, 'compact')
fetchRecentData(symbol) ==
    [fn |-> "DAILY_COMPACT", data |-> DailySeries(symbol, "compact")]

\* the lists the SPLITS endpoint may answer with: up to MaxFetched events,
\* ascending by effective date
RECURSIVE SplitLists(_)
SplitLists(from) ==
    {<<>>} \cup
    UNION {{<<[effective_date |-> d, split_ratio |-> r]>> \o rest :
                rest \in {l \in SplitLists(d + 1) : Len(l) < MaxFetched}} :
           d \in SplitDates \cap (from..MaxDate), r \in RatioSet}

----------------------------------------------------------------------------
(* dataRefreshService.js *)

StoredRow(record) ==
    [open |-> record.open, high |-> record.high, low |-> record.low,
     close |-> record.close, adjusted_close |-> record.adjusted_close,
     volume |-> record.volume]

UpsertRowMutant(old, new) == IF old = NoRow THEN new ELSE old

\* INSERT OR REPLACE INTO historical_stock_data under UNIQUE(symbol, date): the
\* row written takes the place of the row that held the key
UpsertRow(old, new) == new

\* The promise settles in the callback that completes last: it rejects only if
\* that write failed.  A failed write whose callback is not the last one is
\* logged and changes nothing else.
StoreSettles(n, failed, last) ==
    IF n = 0 THEN "resolved"
    ELSE IF last \in failed THEN "rejected" ELSE "resolved"

\* failed: the indexes of the records whose INSERT OR REPLACE fails;
\* last: the index of the record whose callback runs last
storeHistoricalData(hist, reg, historicalData, regFail, failed, last) ==
    LET n        == Len(historicalData)
        adjusted == adjustStockRecords(reg, historicalData, regFail)
        done     == (1..n) \ failed
        hit(s, d) == {i \in done : adjusted[i].symbol = s /\ adjusted[i].date = d}
        max(S)    == CHOOSE i \in S : \A j \in S : j <= i
    IN  [historical |->
            [s \in Symbols |-> [d \in Dates |->
                IF hit(s, d) = {} THEN hist[s][d]
                ELSE UpsertRow(hist[s][d], StoredRow(adjusted[max(hit(s, d))]))]],
         settled  |-> StoreSettles(n, failed, last),
         inserted |-> Cardinality(done), updated |-> 0, skipped |-> 0,
         written  |-> Cardinality(done)]

\* INSERT OR REPLACE INTO tracked_stocks (symbol, name, last_updated): the row
\* is replaced, so the columns the statement does not name become NULL
addTrackedStock(tracked, symbol) ==
    [tracked EXCEPT ![symbol] = [last_data_refresh |-> 0, last_split_check |-> 0]]

\* SELECT * FROM tracked_stocks ORDER BY symbol
getTrackedStocks(tracked) == SelectSeq(SymbolOrder, LAMBDA s : tracked[s] # NoRow)

FetchOutcomes == {"ok", "rateLimit", "error"}


\* in: [overviewOk, addFail, fetch, regFail, failed, last, updFail]
refreshSymbolData(tracked, reg, hist, keyMissing, symbol, fullRefresh, in) ==
    LET overviewCalls == IF keyMissing THEN <<>> ELSE <<"OVERVIEW">>
        tracked1 == IF in.addFail THEN tracked ELSE addTrackedStock(tracked, symbol)
        request == IF fullRefresh THEN fetchFullHistoricalData(symbol)
                   ELSE fetchRecentData(symbol)
        fetchCalls == IF in.addFail \/ keyMissing THEN <<>> ELSE <<request.fn>>
        fetched == ~in.addFail /\ ~keyMissing /\ in.fetch = "ok"
        data == request.data
        st == storeHistoricalData(hist, reg, data, in.regFail, in.failed, in.last)
        stored == fetched /\ st.settled = "resolved"
    IN  [tracked    |-> tracked1,
         historical |-> IF fetched THEN st.historical ELSE hist,
         calls      |-> overviewCalls \o fetchCalls,
         success    |-> stored /\ ~in.updFail,
         fetched    |-> fetched,
         dataFetched |-> IF fetched THEN Len(data) ELSE 0,
         written    |-> IF fetched THEN st.written ELSE 0,
         inserted   |-> IF stored THEN st.inserted ELSE 0,
         updated    |-> IF stored THEN st.updated ELSE 0,
         skipped    |-> IF stored THEN st.skipped ELSE 0]

----------------------------------------------------------------------------
(* startupRefreshService.js *)

NeedsRefreshMutant(last, day) == last = 0 \/ last <= day

\* !row?.last_data_refresh || row.last_data_refresh < today
NeedsRefresh(last, day) == last = 0 \/ last < day

needsDataRefresh(tracked, symbol, day) ==
    tracked[symbol] = NoRow \/ NeedsRefresh(tracked[symbol].last_data_refresh, day)

needsSplitCheck(tracked, symbol, day) ==
    tracked[symbol] = NoRow \/ NeedsRefresh(tracked[symbol].last_split_check, day)

markDataRefreshedMutant(tracked, symbol, day) == tracked

\* UPDATE tracked_stocks SET last_data_refresh = ? WHERE symbol = ?
markDataRefreshed(tracked, symbol, day) ==
    IF tracked[symbol] = NoRow THEN tracked
    ELSE [tracked EXCEPT ![symbol].last_data_refresh = day]

markSplitChecked(tracked, symbol, day) ==
    IF tracked[symbol] = NoRow THEN tracked
    ELSE [tracked EXCEPT ![symbol].last_split_check = day]

InsertSplitMutant(reg, symbol, split) ==
    [reg EXCEPT ![symbol][split.effective_date] = split.split_ratio]

\* INSERT OR IGNORE INTO stock_splits
InsertSplit(reg, symbol, split) ==
    IF reg[symbol][split.effective_date] = NoSplit
    THEN [reg EXCEPT ![symbol][split.effective_date] = split.split_ratio]
    ELSE reg

\* for (const split of splits) { await INSERT OR IGNORE ... }; failAt is the
\* index of the insert that fails (0: none); acc = [reg, inserted, skipped]
RECURSIVE StoreSplits(_, _, _, _, _)
StoreSplits(acc, symbol, splits, i, failAt) ==
    IF i > Len(splits) THEN [acc EXCEPT !.threw = FALSE]
    ELSE IF i = failAt THEN [acc EXCEPT !.threw = TRUE]
    ELSE LET reg1 == InsertSplit(acc.reg, symbol, splits[i])
         IN  StoreSplits([reg |-> reg1,
                          inserted |-> acc.inserted + (IF reg1 # acc.reg THEN 1 ELSE 0),
                          skipped  |-> acc.skipped + (IF reg1 # acc.reg THEN 0 ELSE 1),
                          threw |-> FALSE],
                         symbol, splits, i + 1, failAt)

\* fetch: the provider's answer; splits: the list in data.data
fetchAndStoreSplits(reg, symbol, fetch, splits, failAt) ==
    IF fetch # "ok"
    THEN [reg |-> reg, inserted |-> 0, skipped |-> 0, total |-> 0, threw |-> TRUE]
    ELSE LET r == StoreSplits([reg |-> reg, inserted |-> 0, skipped |-> 0, threw |-> FALSE],
                              symbol, splits, 1, failAt)
         IN  [reg |-> r.reg, inserted |-> r.inserted, skipped |-> r.skipped,
              total |-> Len(splits), threw |-> r.threw]


refreshSymbolDataPartMutant(tracked, reg, hist, day, keyMissing, symbol, in) ==
    LET request == fetchRecentData(symbol)
        fetched == ~keyMissing /\ in.fetch = "ok"
        st == storeHistoricalData(hist, reg, request.data, in.regFail, in.failed, in.last)
        marked == fetched /\ st.settled = "resolved" /\ ~in.markFail
    IN  [tracked    |-> markDataRefreshed(tracked, symbol, day),
         historical |-> IF fetched THEN st.historical ELSE hist,
         calls      |-> IF keyMissing THEN <<>> ELSE <<request.fn>>,
         done       |-> marked,
         fetched    |-> fetched,
         total      |-> IF fetched THEN Len(request.data) ELSE 0,
         written    |-> IF fetched THEN st.written ELSE 0]

\* lines 435-448 of refreshSymbol: fetch the recent window, store it, mark it
\* in: [fetch, regFail, failed, last, markFail]
refreshSymbolDataPart(tracked, reg, hist, day, keyMissing, symbol, in) ==
    LET request == fetchRecentData(symbol)
        fetched == ~keyMissing /\ in.fetch = "ok"
        st == storeHistoricalData(hist, reg, request.data, in.regFail, in.failed, in.last)
        stored == fetched /\ st.settled = "resolved"
        marked == stored /\ ~in.markFail
    IN  [tracked    |-> IF marked THEN markDataRefreshed(tracked, symbol, day) ELSE tracked,
         historical |-> IF fetched THEN st.historical ELSE hist,
         calls      |-> IF keyMissing THEN <<>> ELSE <<request.fn>>,
         done       |-> marked,
         fetched    |-> fetched,
         total      |-> IF fetched THEN Len(request.data) ELSE 0,
         written    |-> IF fetched THEN st.written ELSE 0]

\* lines 459-471 of refreshSymbol: fetch the splits, insert them, mark the check
\* in: [fetch, splits, failAt, markFail]
refreshSymbolSplitPart(tracked, reg, day, symbol, in) ==
    LET r == fetchAndStoreSplits(reg, symbol, in.fetch, in.splits, in.failAt)
        marked == ~r.threw /\ ~in.markFail
    IN  [tracked  |-> IF marked THEN markSplitChecked(tracked, symbol, day) ELSE tracked,
         reg      |-> r.reg,
         calls    |-> <<"SPLITS">>,
         done     |-> marked,
         fetched  |-> in.fetch = "ok",
         total    |-> r.total,
         inserted |-> r.inserted,
         skipped  |-> r.skipped,
         threw    |-> r.threw]

----------------------------------------------------------------------------
(* Bookkeeping of the upstream calls and of the delays between them *)

RECURSIVE LogCalls(_, _, _, _)
LogCalls(log, since, symbol, fns) ==
    IF fns = <<>> THEN log
    ELSE LogCalls(Append(log, [symbol |-> symbol, fn |-> Head(fns),
                               spaced |-> since # "nodelay"]),
                  "nodelay", symbol, Tail(fns))

AfterCalls(since, fns) == IF fns = <<>> THEN since ELSE "nodelay"

\* await new Promise(resolve => setTimeout(resolve, 2500))
Delay(since) == IF since = "nodelay" THEN "delayed" ELSE since

NoStep == [op |-> "none"]

\* the requests served at once
Handlers == 1..MaxHandlers

IdleHandler == [pc |-> "idle"]

NoHandlers == [h \in Handlers |-> IdleHandler]

\* fetched: the symbols whose daily series a refresh call obtained from the
\* provider today; done: those whose data refresh the scheduler completed today
\* with no manual refresh since; limited: the <<symbol, fetch>> pairs the
\* provider answered with a rate limit today
NoLedger == [fetched |-> {}, done |-> {}, limited |-> {}]

SchedulerData(l, symbol, fetched, done, outcome) ==
    [fetched |-> IF fetched THEN l.fetched \cup {symbol} ELSE l.fetched,
     done    |-> IF done THEN l.done \cup {symbol} ELSE l.done,
     limited |-> IF outcome = "rateLimit" THEN l.limited \cup {<<symbol, "data">>}
                 ELSE l.limited]

SchedulerSplits(l, symbol, outcome) ==
    [l EXCEPT !.limited = IF outcome = "rateLimit" THEN @ \cup {<<symbol, "splits">>}
                          ELSE @]

Manual(l, symbol, fetched) ==
    [l EXCEPT !.fetched = IF fetched THEN @ \cup {symbol} ELSE @,
              !.done = @ \ {symbol}]
IdleRun == [kind |-> "none", queue |-> <<>>, pc |-> "data", needsData |-> FALSE,
            full |-> FALSE, cur |-> NoStep, results |-> <<>>, requested |-> 0,
            listed |-> TRUE, apiCallsUsed |-> 0]

Fresh(tracked, symbol, day) ==
    /\ tracked[symbol] # NoRow
    /\ tracked[symbol].last_data_refresh = day
    /\ tracked[symbol].last_split_check = day


----------------------------------------------------------------------------
(* The process: index.js startup(), performStartupRefresh, the HTTP routes *)

Result(symbol) ==
    [symbol |-> symbol, dataRefreshed |-> FALSE, splitsChecked |-> FALSE, errors |-> <<>>]

B2N(b) == IF b THEN 1 ELSE 0

Left == MaxFaults - faults

\* performStartupRefresh, "Count API calls made": one call is counted for each
\* flag the result of refreshSymbol carries
CountCalls(used, result) ==
    used + B2N(result.dataRefreshed) + B2N(result.splitsChecked)

\* the loop body of performStartupRefresh after refreshSymbol has returned
PushResult(r, result) ==
    [r EXCEPT !.queue = Tail(@), !.pc = "data", !.cur = NoStep,
              !.results = Append(@, result),
              !.apiCallsUsed = CountCalls(@, result)]

\* The failures a data refresh can meet, each counted once; inputs that cannot
\* matter (nothing is stored after a failed fetch) are fixed
DataInputs(n, keyMissing) ==
    {in \in [fetch : FetchOutcomes, regFail : BOOLEAN, failed : SUBSET (1..n),
             last : 1..n, markFail : BOOLEAN] :
        /\ (keyMissing => in.fetch = "ok")
        /\ (keyMissing \/ in.fetch # "ok" =>
                ~in.regFail /\ in.failed = {} /\ ~in.markFail)
        /\ (in.failed = {} => in.last = 1)
        /\ (in.last \in in.failed => ~in.markFail)
        /\ B2N(~keyMissing /\ in.fetch # "ok") + B2N(in.regFail)
             + Cardinality(in.failed) + B2N(in.markFail) <= Left}

DataCost(in, keyMissing) ==
    B2N(~keyMissing /\ in.fetch # "ok") + B2N(in.regFail)
      + Cardinality(in.failed) + B2N(in.markFail)

SplitInputs ==
    {in \in [fetch : FetchOutcomes, splits : SplitLists(1), failAt : 0..MaxFetched,
             markFail : BOOLEAN] :
        /\ in.failAt <= Len(in.splits)
        /\ (in.fetch # "ok" => in.splits = <<>>)
        /\ (in.fetch # "ok" \/ in.failAt # 0 => ~in.markFail)
        /\ B2N(in.fetch # "ok") + B2N(in.failAt # 0) + B2N(in.markFail) <= Left}

SplitCost(in) == B2N(in.fetch # "ok") + B2N(in.failAt # 0) + B2N(in.markFail)

ManualInputs(n) ==
    {in \in [addFail : BOOLEAN, fetch : FetchOutcomes, regFail : BOOLEAN,
             failed : SUBSET (1..n), last : 1..n, updFail : BOOLEAN] :
        /\ (in.addFail => in.fetch = "ok")
        /\ (in.addFail \/ in.fetch # "ok" =>
                ~in.regFail /\ in.failed = {} /\ ~in.updFail)
        /\ (in.failed = {} => in.last = 1)
        /\ (in.last \in in.failed => ~in.updFail)
        /\ B2N(in.addFail) + B2N(in.fetch # "ok") + B2N(in.regFail)
             + Cardinality(in.failed) + B2N(in.updFail) <= Left}

ManualCost(in) ==
    B2N(in.addFail) + B2N(in.fetch # "ok") + B2N(in.regFail)
      + Cardinality(in.failed) + B2N(in.updFail)

\* performStartupRefresh up to the loop: the tracked symbols are listed once
Boot ==
    /\ phase = "boot"
    /\ \E listFail \in {f \in BOOLEAN : B2N(f) <= Left} :
        /\ run' = [IdleRun EXCEPT !.kind = "startup",
                     !.queue = IF listFail THEN <<>> ELSE getTrackedStocks(tracked_stocks),
                     !.requested = IF listFail THEN 0
                                   ELSE Len(getTrackedStocks(tracked_stocks)),
                     !.listed = ~listFail]
        /\ faults' = faults + B2N(listFail)
    /\ phase' = "startup"
    /\ callLog' = <<>>
    /\ sinceCall' = "none"
    /\ step' = NoStep
    /\ UNCHANGED <<today, apiKeyMissing, tracked_stocks, stock_splits, historical,
                   cleanRun, boots, ops, probe, handlers, ledger>>

DataStepOf(symbol, fresh, lookup, needed, outcome, r) ==
    [op |-> "data", symbol |-> symbol, fresh |-> fresh, lookup |-> lookup,
     needed |-> needed, outcome |-> outcome, calls |-> r.calls, total |-> r.total,
     written |-> r.written, marked |-> r.done,
     again |-> symbol \in ledger.fetched, after |-> symbol \in ledger.done,
     limited |-> <<symbol, "data">> \in ledger.limited]

NoData == [calls |-> <<>>, total |-> 0, written |-> 0, done |-> FALSE]

\* refreshSymbol, first half: needsDataRefresh and the data refresh
DataStep ==
    /\ phase = "startup" /\ run.pc = "data" /\ run.queue # <<>>
    /\ LET symbol == Head(run.queue)
           fresh  == Fresh(tracked_stocks, symbol, today)
       IN
       \/ \* needsDataRefresh rejects: the outer catch ends refreshSymbol
          /\ Left > 0
          /\ faults' = faults + 1
          /\ run' = PushResult(run, [Result(symbol) EXCEPT
                                        !.errors = <<"General error">>])
          /\ step' = DataStepOf(symbol, fresh, "failed", FALSE, "none", NoData)
          /\ ledger' = SchedulerData(ledger, symbol, FALSE, FALSE, "none")
          /\ UNCHANGED <<tracked_stocks, historical, callLog, sinceCall>>
       \/ /\ ~needsDataRefresh(tracked_stocks, symbol, today)
          /\ run' = [run EXCEPT !.pc = "splits", !.needsData = FALSE,
                                !.cur = Result(symbol)]
          /\ step' = DataStepOf(symbol, fresh, "ok", FALSE, "none", NoData)
          /\ ledger' = SchedulerData(ledger, symbol, FALSE, FALSE, "none")
          /\ UNCHANGED <<tracked_stocks, historical, callLog, sinceCall, faults>>
       \/ /\ needsDataRefresh(tracked_stocks, symbol, today)
          /\ \E in \in DataInputs(Len(fetchRecentData(symbol).data), apiKeyMissing) :
              LET r == refreshSymbolDataPart(tracked_stocks, stock_splits, historical,
                           today, apiKeyMissing, symbol, in)
              IN  /\ tracked_stocks' = r.tracked
                  /\ historical' = r.historical
                  /\ callLog' = LogCalls(callLog, sinceCall, symbol, r.calls)
                  /\ sinceCall' = Delay(AfterCalls(sinceCall, r.calls))
                  /\ faults' = faults + DataCost(in, apiKeyMissing)
                  /\ run' = [run EXCEPT !.pc = "splits", !.needsData = TRUE,
                               !.cur = [Result(symbol) EXCEPT
                                          !.dataRefreshed = r.done,
                                          !.errors = IF r.done THEN <<>>
                                                     ELSE <<"Data refresh">>]]
                  /\ step' = DataStepOf(symbol, fresh, "ok", TRUE,
                                 IF apiKeyMissing THEN "noKey" ELSE in.fetch, r)
                  /\ ledger' = SchedulerData(ledger, symbol, r.fetched, r.done,
                                 IF apiKeyMissing THEN "noKey" ELSE in.fetch)
    /\ UNCHANGED <<today, apiKeyMissing, stock_splits, phase, cleanRun, boots, ops, probe, handlers>>

SplitStepOf(symbol, fresh, lookup, needed, outcome, r) ==
    [op |-> "splits", symbol |-> symbol, fresh |-> fresh, lookup |-> lookup,
     needed |-> needed, outcome |-> outcome, calls |-> r.calls, total |-> r.total,
     inserted |-> r.inserted, skipped |-> r.skipped, threw |-> r.threw,
     marked |-> r.done, limited |-> <<symbol, "splits">> \in ledger.limited]

NoSplits == [calls |-> <<>>, total |-> 0, inserted |-> 0, skipped |-> 0,
             threw |-> FALSE, done |-> FALSE]

\* refreshSymbol, second half: needsSplitCheck and the split check
SplitStep ==
    /\ phase = "startup" /\ run.pc = "splits" /\ run.queue # <<>>
    /\ LET symbol == Head(run.queue)
           fresh  == Fresh(tracked_stocks, symbol, today)
       IN
       \/ \* needsSplitCheck rejects
          /\ Left > 0
          /\ faults' = faults + 1
          /\ run' = PushResult(run, [run.cur EXCEPT
                                        !.errors = Append(@, "General error")])
          /\ step' = SplitStepOf(symbol, fresh, "failed", FALSE, "none", NoSplits)
          /\ UNCHANGED <<tracked_stocks, stock_splits, callLog, sinceCall, ledger>>
       \/ /\ ~needsSplitCheck(tracked_stocks, symbol, today)
          /\ run' = PushResult(run, run.cur)
          /\ step' = SplitStepOf(symbol, fresh, "ok", FALSE, "none", NoSplits)
          /\ UNCHANGED <<tracked_stocks, stock_splits, callLog, sinceCall, faults, ledger>>
       \/ /\ needsSplitCheck(tracked_stocks, symbol, today)
          /\ \E in \in SplitInputs :
              LET r == refreshSymbolSplitPart(tracked_stocks, stock_splits, today,
                                              symbol, in)
              IN  /\ tracked_stocks' = r.tracked
                  /\ stock_splits' = r.reg
                  /\ callLog' = LogCalls(callLog, sinceCall, symbol, r.calls)
                  /\ sinceCall' = IF run.needsData
                                  THEN Delay(AfterCalls(sinceCall, r.calls))
                                  ELSE AfterCalls(sinceCall, r.calls)
                  /\ faults' = faults + SplitCost(in)
                  /\ run' = PushResult(run, [run.cur EXCEPT
                                   !.splitsChecked = r.done,
                                   !.errors = IF r.done THEN @
                                              ELSE Append(@, "Split check")])
                  /\ step' = SplitStepOf(symbol, fresh, "ok", TRUE, in.fetch, r)
                  /\ ledger' = SchedulerSplits(ledger, symbol, in.fetch)
    /\ UNCHANGED <<today, apiKeyMissing, historical, phase, cleanRun, boots, ops, probe, handlers>>

NoErrors(results) == \A i \in 1..Len(results) : results[i].errors = <<>>

\* performStartupRefresh returns its summary and startup() calls app.listen
StartupDone ==
    /\ phase = "startup" /\ run.pc = "data" /\ run.queue = <<>>
    /\ phase' = "listening"
    /\ cleanRun' = IF run.listed /\ run.results # <<>> /\ NoErrors(run.results)
                   THEN today ELSE cleanRun
    /\ UNCHANGED <<today, apiKeyMissing, tracked_stocks, stock_splits, historical,
                   run, callLog, sinceCall, step, boots, ops, faults, probe, handlers, ledger>>

\* of the n most recent dates, those for which the store held no row of the
\* symbol before the refresh, and those whose row the refresh left as it was
KeysAbsent(hist, symbol, n) ==
    {d \in Dates : d > MaxDate - n /\ hist[symbol][d] = NoRow}

KeysSame(hist, after, symbol, n) ==
    {d \in Dates : /\ d > MaxDate - n /\ hist[symbol][d] # NoRow
                   /\ after[symbol][d] = hist[symbol][d]}

ManualStepOf(symbol, fresh, in, r) ==
    [op |-> "manual", symbol |-> symbol, fresh |-> fresh,
     outcome |-> IF in.addFail THEN "none" ELSE in.fetch,
     calls |-> r.calls, total |-> r.dataFetched, written |-> r.written,
     success |-> r.success, again |-> symbol \in ledger.fetched,
     inserted |-> r.inserted, updated |-> r.updated, skipped |-> r.skipped,
     absent |-> Cardinality(KeysAbsent(historical, symbol, r.dataFetched)),
     same |-> Cardinality(KeysSame(historical, r.historical, symbol, r.dataFetched))]

\* POST /refresh/:symbol (fullRefresh from the body) and POST /add-stock/:symbol
\* (addCustomStock: always a full refresh); 503 without API key
ManualRefresh ==
    /\ phase = "listening" /\ ops < MaxOps /\ ~apiKeyMissing
    /\ \E symbol \in Symbols, fullRefresh \in BOOLEAN :
       \E in \in ManualInputs(IF fullRefresh THEN Len(fetchFullHistoricalData(symbol).data)
                              ELSE Len(fetchRecentData(symbol).data)) :
          LET r == refreshSymbolData(tracked_stocks, stock_splits, historical,
                                     apiKeyMissing, symbol, fullRefresh, in)
          IN  /\ tracked_stocks' = r.tracked
              /\ historical' = r.historical
              /\ callLog' = LogCalls(<<>>, "none", symbol, r.calls)
              /\ sinceCall' = AfterCalls("none", r.calls)
              /\ faults' = faults + ManualCost(in)
              /\ run' = [IdleRun EXCEPT !.kind = "manual", !.full = fullRefresh,
                           !.requested = 1,
                           !.results = <<[symbol |-> symbol, success |-> r.success]>>]
              /\ step' = ManualStepOf(symbol, Fresh(tracked_stocks, symbol, today), in, r)
              /\ ledger' = Manual(ledger, symbol, r.fetched)
    /\ ops' = ops + 1
    /\ UNCHANGED <<today, apiKeyMissing, stock_splits, phase, cleanRun, boots, probe, handlers>>

HasData(hist, symbol) == \E d \in Dates : hist[symbol][d] # NoRow

\* POST /refresh-all: refreshMultipleSymbols over the tracked symbols (404 if none);
\* POST /init: initializeMagnificent7, a full refresh of the listed symbols that
\* have no data yet, or of all of them with forceRefresh
MultiBegin ==
    /\ phase = "listening" /\ ops < MaxOps /\ ~apiKeyMissing
    /\ \E route \in {"refresh-all", "init"}, flag \in BOOLEAN :
        LET symbols == IF route = "refresh-all" THEN getTrackedStocks(tracked_stocks)
                       ELSE SelectSeq(SymbolOrder,
                                LAMBDA s : flag \/ ~HasData(historical, s))
        IN  /\ symbols # <<>>
            /\ run' = [IdleRun EXCEPT !.kind = "multi", !.queue = symbols,
                         !.requested = Len(symbols),
                         !.full = IF route = "refresh-all" THEN flag ELSE TRUE]
    /\ phase' = "multi"
    /\ callLog' = <<>>
    /\ sinceCall' = "none"
    /\ step' = NoStep
    /\ ops' = ops + 1
    /\ UNCHANGED <<today, apiKeyMissing, tracked_stocks, stock_splits, historical,
                   cleanRun, boots, faults, probe, handlers, ledger>>

\* one iteration of the loop of refreshMultipleSymbols
MultiStep ==
    /\ phase = "multi" /\ run.queue # <<>>
    /\ LET symbol == Head(run.queue) IN
       \E in \in ManualInputs(IF run.full THEN Len(fetchFullHistoricalData(symbol).data)
                              ELSE Len(fetchRecentData(symbol).data)) :
          LET r == refreshSymbolData(tracked_stocks, stock_splits, historical,
                                     apiKeyMissing, symbol, run.full, in)
              logged == AfterCalls(sinceCall, r.calls)
          IN  /\ tracked_stocks' = r.tracked
              /\ historical' = r.historical
              /\ callLog' = LogCalls(callLog, sinceCall, symbol, r.calls)
              /\ sinceCall' = IF r.success /\ Len(run.queue) > 1
                              THEN Delay(logged) ELSE logged
              /\ faults' = faults + ManualCost(in)
              /\ run' = [run EXCEPT !.queue = Tail(@),
                           !.results = Append(@, [symbol |-> symbol,
                                                  success |-> r.success])]
              /\ step' = ManualStepOf(symbol, Fresh(tracked_stocks, symbol, today), in, r)
              /\ ledger' = Manual(ledger, symbol, r.fetched)
    /\ UNCHANGED <<today, apiKeyMissing, stock_splits, phase, cleanRun, boots, ops, probe, handlers>>

\* refreshMultipleSymbols returns its results and the route answers
MultiDone ==
    /\ phase = "multi" /\ run.queue = <<>>
    /\ phase' = "listening"
    /\ UNCHANGED <<today, apiKeyMissing, tracked_stocks, stock_splits, historical,
                   run, callLog, sinceCall, step, cleanRun, boots, ops, faults, probe, handlers, ledger>>

\* POST /splits/:symbol
AddSplit ==
    /\ phase = "listening" /\ ops < MaxOps
    /\ \E symbol \in Symbols, d \in SplitDates, ratio \in RatioSet :
        stock_splits' = addStockSplit(stock_splits, symbol, d, ratio)
    /\ ops' = ops + 1
    /\ UNCHANGED <<today, apiKeyMissing, tracked_stocks, historical, phase, run,
                   callLog, sinceCall, step, cleanRun, boots, faults, probe, handlers, ledger>>

\* midnight passes while no refresh run is in progress
NewDay ==
    /\ phase \in {"boot", "listening"} /\ today < MaxDay
    /\ today' = today + 1
    /\ ledger' = NoLedger
    /\ UNCHANGED <<apiKeyMissing, tracked_stocks, stock_splits, historical, phase, run,
                   callLog, sinceCall, step, cleanRun, boots, ops, faults, probe, handlers>>

\* the process is stopped at any point and started again in the same
\* environment; the database file persists
Restart ==
    /\ phase # "boot" /\ boots < MaxRestarts
    /\ phase' = "boot"
    /\ boots' = boots + 1
    /\ run' = IdleRun
    /\ callLog' = <<>>
    /\ sinceCall' = "none"
    /\ step' = NoStep
    /\ UNCHANGED <<today, apiKeyMissing, tracked_stocks, stock_splits, historical,
                   cleanRun, ops, faults, probe, handlers, ledger>>

\* initializeSplitData: the seeded registry (INSERT OR IGNORE at every start)
SeedSplits ==
    [s \in Symbols |-> [d \in Dates |->
        IF s = "AAPL" /\ d = 2 THEN <<2, 1>> ELSE NoSplit]]

\* the database of a new installation, and the database left by an earlier
\* POST /init that stored the full history of every symbol
EmptyStore == [s \in Symbols |-> [d \in Dates |-> NoRow]]

InitializedStore ==
    [s \in Symbols |->
        storeHistoricalData(EmptyStore, SeedSplits, fetchFullHistoricalData(s).data,
                            FALSE, {}, 1).historical[s]]

Init ==
    /\ today = 1
    /\ apiKeyMissing \in BOOLEAN
    /\ \/ /\ tracked_stocks = [s \in Symbols |-> NoRow]
          /\ historical = EmptyStore
       \/ /\ tracked_stocks = [s \in Symbols |->
                                  [last_data_refresh |-> 0, last_split_check |-> 0]]
          /\ historical = InitializedStore
    /\ stock_splits = SeedSplits
    /\ phase = "boot"
    /\ run = IdleRun
    /\ callLog = <<>>
    /\ sinceCall = "none"
    /\ step = NoStep
    /\ cleanRun = 0
    /\ boots = 0
    /\ ops = 0
    /\ faults = 0
    /\ ledger = NoLedger
    /\ probe = NoStep
    /\ handlers = NoHandlers

Next ==
    \/ Boot \/ DataStep \/ SplitStep \/ StartupDone
    \/ ManualRefresh \/ MultiBegin \/ MultiStep \/ MultiDone
    \/ AddSplit \/ NewDay \/ Restart

Spec == Init /\ [][Next]_vars

----------------------------------------------------------------------------
(* The adjustment functions on their own: every registry that addStockSplit can
   build from the seeded one, every date, every record, every batch of up to
   MaxBatch records *)

MaxBatch == 2

RawRecords == {RawRecord(s, d) : s \in Symbols, d \in Dates}

RECURSIVE Batches(_)
Batches(n) ==
    IF n = 0 THEN {<<>>}
    ELSE LET shorter == Batches(n - 1)
         IN  shorter \cup {Append(b, r) : b \in {x \in shorter : Len(x) = n - 1},
                                          r \in RawRecords}

AdjUnchanged ==
    UNCHANGED <<today, apiKeyMissing, tracked_stocks, historical, phase, run,
                callLog, sinceCall, step, cleanRun, boots, ops, faults, ledger,
                handlers>>

\* POST /splits/:symbol -> addStockSplit
AdjAddSplit ==
    /\ probe = NoStep
    /\ \E symbol \in Symbols, d \in Dates, ratio \in RatioSet :
        stock_splits' = addStockSplit(stock_splits, symbol, d, ratio)
    /\ UNCHANGED probe
    /\ AdjUnchanged

\* GET /splits/:symbol/factor/:date -> getSplitAdjustmentFactor
AdjFactor ==
    /\ probe = NoStep
    /\ \E symbol \in Symbols, date \in Dates, regFail \in BOOLEAN :
        probe' = [op |-> "factor", symbol |-> symbol, date |-> date,
                  regFail |-> regFail,
                  factor |-> getSplitAdjustmentFactor(stock_splits, symbol, date, regFail)]
    /\ UNCHANGED stock_splits
    /\ AdjUnchanged

AdjRecord ==
    /\ probe = NoStep
    /\ \E record \in RawRecords, regFail \in BOOLEAN :
        probe' = [op |-> "record", record |-> record, regFail |-> regFail,
                  out |-> adjustStockRecord(stock_splits, record, regFail)]
    /\ UNCHANGED stock_splits
    /\ AdjUnchanged

AdjBatch ==
    /\ probe = NoStep
    /\ \E batch \in Batches(MaxBatch), regFail \in BOOLEAN :
        probe' = [op |-> "batch", batch |-> batch, regFail |-> regFail,
                  out |-> adjustStockRecords(stock_splits, batch, regFail)]
    /\ UNCHANGED stock_splits
    /\ AdjUnchanged

\* the call has returned
AdjReturn ==
    /\ probe # NoStep
    /\ probe' = NoStep
    /\ UNCHANGED stock_splits
    /\ AdjUnchanged

InitAdj ==
    /\ today = 1
    /\ apiKeyMissing = FALSE
    /\ tracked_stocks = [s \in Symbols |-> NoRow]
    /\ historical = EmptyStore
    /\ stock_splits = SeedSplits
    /\ phase = "listening"
    /\ run = IdleRun
    /\ callLog = <<>>
    /\ sinceCall = "none"
    /\ step = NoStep
    /\ cleanRun = 0
    /\ boots = 0
    /\ ops = 0
    /\ faults = 0
    /\ ledger = NoLedger
    /\ probe = NoStep
    /\ handlers = NoHandlers

NextAdj == AdjAddSplit \/ AdjFactor \/ AdjRecord \/ AdjBatch \/ AdjReturn

SpecAdj == InitAdj /\ [][NextAdj]_vars

----------------------------------------------------------------------------
(* queryService.js and the query routes: a query in flight is held in `probe`
   while refreshes and split registrations go on *)

DefaultLimit == 1000

\* a row as db.all returns it
QueryRow(symbol, d, row) ==
    [symbol |-> symbol, date |-> d, open |-> row.open, high |-> row.high,
     low |-> row.low, close |-> row.close,
     adjusted_close |-> row.adjusted_close, volume |-> row.volume]

\* the rows of `symbol` dated lo..d, newest first
RECURSIVE RowsDesc(_, _, _, _)
RowsDesc(hist, symbol, d, lo) ==
    IF d < lo \/ d < 1 THEN <<>>
    ELSE (IF hist[symbol][d] = NoRow THEN <<>>
          ELSE <<QueryRow(symbol, d, hist[symbol][d])>>)
         \o RowsDesc(hist, symbol, d - 1, lo)

\* SELECT ... WHERE symbol = ? [AND date >= ?] [AND date <= ?]
\* ORDER BY date DESC LIMIT ?; 0 stands for an option that is not given
getHistoricalData(hist, symbol, startDate, endDate, limit) ==
    LET rows == RowsDesc(hist, symbol,
                         IF endDate = 0 THEN MaxDate ELSE endDate,
                         IF startDate = 0 THEN 1 ELSE startDate)
        n    == IF limit = 0 THEN DefaultLimit ELSE limit
    IN  IF Len(rows) <= n THEN rows ELSE SubSeq(rows, 1, n)

QueryOptions ==
    {[startDate |-> 0, endDate |-> 0, limit |-> 0],
     [startDate |-> 0, endDate |-> 1, limit |-> 0],
     [startDate |-> MaxDate, endDate |-> 0, limit |-> 0],
     [startDate |-> 0, endDate |-> 0, limit |-> 1]}

\* expressions of the service and of its callers: two that evaluate, one that
\* does not compile and one that fails when evaluated
Expressions == {"$max(data.high)", "$count(data)", "$max(data.high", "$sum(data.date)"}

RECURSIVE MaxHigh(_)
MaxHigh(data) ==
    IF Len(data) = 1 THEN data[1].high
    ELSE LET m == MaxHigh(Tail(data))
         IN  IF data[1].high >= m THEN data[1].high ELSE m

\* jsonata(query) followed by expression.evaluate(historicalData)
Evaluate(query, data) ==
    CASE query = "$max(data.high)" -> [ok |-> TRUE, value |-> MaxHigh(data)]
      [] query = "$count(data)"    -> [ok |-> TRUE, value |-> Len(data)]
      [] query = "$max(data.high"  ->
            [ok |-> FALSE, message |-> "Expected \")\" before end of expression"]
      [] OTHER ->
            [ok |-> FALSE,
             message |-> "Argument 1 of function \"sum\" does not match function signature"]

NoDataErrorMutant(symbol) == <<"SQLITE_ERROR">>

\* throw new Error(`No historical data found for symbol ${symbol}`)
NoDataError(symbol) == <<"No historical data found for symbol", symbol>>

\* the message of the error db.all hands to getHistoricalData's callback
StoreError == <<"SQLITE_ERROR">>

ExpressionError(message) == <<message>>

\* executeQuery: storeFail tells whether getHistoricalData rejects
executeQuery(hist, symbol, query, options, storeFail) ==
    LET dataArray == getHistoricalData(hist, symbol, options.startDate,
                                       options.endDate, options.limit)
        r == Evaluate(query, dataArray)
    IN  IF storeFail
        THEN [success |-> FALSE, error |-> StoreError, symbol |-> symbol,
              query |-> query, evaluated |-> 0, cause |-> "store"]
        ELSE IF Len(dataArray) = 0
        THEN [success |-> FALSE, error |-> NoDataError(symbol), symbol |-> symbol,
              query |-> query, evaluated |-> 0, cause |-> "nodata"]
        ELSE IF ~r.ok
        THEN [success |-> FALSE, error |-> ExpressionError(r.message),
              symbol |-> symbol, query |-> query, evaluated |-> 1,
              cause |-> "expression"]
        ELSE [success |-> TRUE, symbol |-> symbol, query |-> query,
              dataCount |-> Len(dataArray), result |-> r.value,
              evaluated |-> 1, cause |-> "none"]

\* the named expressions of a batch, in the order Object.entries lists them
QueryKeys == <<"first", "second">>

QueryBatches ==
    {<<a>> : a \in Expressions} \cup {<<a, b>> : a \in Expressions, b \in Expressions}

NoEntry == [absent |-> TRUE]

NoResults == [k \in {QueryKeys[i] : i \in 1..Len(QueryKeys)} |-> NoEntry]

StoreResultMutant(results, key, r) ==
    IF r.ok THEN [results EXCEPT ![key] = [value |-> r.value]] ELSE results

\* try { results[key] = await expression.evaluate(historicalData) }
\* catch (error) { results[key] = { error: error.message } }
StoreResult(results, key, r) ==
    IF r.ok THEN [results EXCEPT ![key] = [value |-> r.value]]
    ELSE [results EXCEPT ![key] = [error |-> r.message]]

SharedSeriesMutant(loaded, hist, symbol, options) ==
    getHistoricalData(hist, symbol, options.startDate, options.endDate, options.limit)

\* every expression of the batch is evaluated against the historicalData object
\* built from the one getHistoricalData call
SharedSeries(loaded, hist, symbol, options) == loaded

\* executeMultipleQueries up to the loop: the one read of the store
QueryLoad ==
    /\ phase = "listening" /\ probe = NoStep
    /\ \E symbol \in Symbols, queries \in QueryBatches, options \in QueryOptions,
          storeFail \in BOOLEAN :
        LET dataArray == getHistoricalData(historical, symbol, options.startDate,
                                           options.endDate, options.limit)
            call == [op |-> "multi", symbol |-> symbol, queries |-> queries,
                     options |-> options, loads |-> 1, evaluated |-> 0,
                     next |-> 1, results |-> NoResults, pc |-> "eval",
                     success |-> FALSE, error |-> <<>>, cause |-> "none",
                     data |-> dataArray]
        IN  probe' =
              IF storeFail
              THEN [call EXCEPT !.pc = "done", !.error = StoreError,
                                !.cause = "store", !.data = <<>>]
              ELSE IF Len(dataArray) = 0
              THEN [call EXCEPT !.pc = "done", !.error = NoDataError(symbol),
                                !.cause = "nodata"]
              ELSE call
    /\ UNCHANGED <<today, apiKeyMissing, tracked_stocks, stock_splits, historical,
                   phase, run, callLog, sinceCall, step, cleanRun, boots, ops,
                   faults, ledger, handlers>>

\* one iteration of the loop of executeMultipleQueries; the call returns after
\* the last one
QueryEval ==
    /\ probe # NoStep /\ probe.op = "multi" /\ probe.pc = "eval"
    /\ LET key  == QueryKeys[probe.next]
           data == SharedSeries(probe.data, historical, probe.symbol, probe.options)
           r    == Evaluate(probe.queries[probe.next], data)
           last == probe.next = Len(probe.queries)
       IN  probe' = [probe EXCEPT !.results = StoreResult(@, key, r),
                                  !.evaluated = @ + 1,
                                  !.next = @ + 1,
                                  !.pc = IF last THEN "done" ELSE "eval",
                                  !.success = last]
    /\ UNCHANGED <<today, apiKeyMissing, tracked_stocks, stock_splits, historical,
                   phase, run, callLog, sinceCall, step, cleanRun, boots, ops,
                   faults, ledger, handlers>>

\* GET /query/:symbol
ExecuteQuery ==
    /\ phase = "listening" /\ probe = NoStep
    /\ \E symbol \in Symbols, query \in Expressions, options \in QueryOptions,
          storeFail \in BOOLEAN :
        probe' = [op |-> "query", pc |-> "done",
                  out |-> executeQuery(historical, symbol, query, options, storeFail)]
    /\ UNCHANGED <<today, apiKeyMissing, tracked_stocks, stock_splits, historical,
                   phase, run, callLog, sinceCall, step, cleanRun, boots, ops,
                   faults, ledger, handlers>>

\* GET /historical/:symbol
GetHistorical ==
    /\ phase = "listening" /\ probe = NoStep
    /\ \E symbol \in Symbols, options \in QueryOptions, storeFail \in BOOLEAN :
        LET data == getHistoricalData(historical, symbol, options.startDate,
                                      options.endDate, options.limit)
        IN  probe' = [op |-> "historical", pc |-> "done", symbol |-> symbol,
                      status |-> IF storeFail THEN 500
                                 ELSE IF Len(data) = 0 THEN 404 ELSE 200,
                      count |-> IF storeFail THEN 0 ELSE Len(data),
                      cause |-> IF storeFail THEN "store"
                                ELSE IF Len(data) = 0 THEN "nodata" ELSE "none"]
    /\ UNCHANGED <<today, apiKeyMissing, tracked_stocks, stock_splits, historical,
                   phase, run, callLog, sinceCall, step, cleanRun, boots, ops,
                   faults, ledger, handlers>>

\* res.json(result): the response is sent
QueryReturn ==
    /\ probe # NoStep /\ probe.pc = "done"
    /\ probe' = NoStep
    /\ UNCHANGED <<today, apiKeyMissing, tracked_stocks, stock_splits, historical,
                   phase, run, callLog, sinceCall, step, cleanRun, boots, ops,
                   faults, ledger, handlers>>

\* the server is listening, on a new database or on one initialised earlier
InitQuery ==
    /\ today = 1
    /\ apiKeyMissing = FALSE
    /\ \/ /\ tracked_stocks = [s \in Symbols |-> NoRow]
          /\ historical = EmptyStore
       \/ /\ tracked_stocks = [s \in Symbols |->
                                  [last_data_refresh |-> 0, last_split_check |-> 0]]
          /\ historical = InitializedStore
    /\ stock_splits = SeedSplits
    /\ phase = "listening"
    /\ run = IdleRun
    /\ callLog = <<>>
    /\ sinceCall = "none"
    /\ step = NoStep
    /\ cleanRun = 0
    /\ boots = 0
    /\ ops = 0
    /\ faults = 0
    /\ ledger = NoLedger
    /\ probe = NoStep
    /\ handlers = NoHandlers

NextQuery ==
    \/ QueryLoad \/ QueryEval \/ ExecuteQuery \/ GetHistorical \/ QueryReturn
    \/ ManualRefresh \/ AddSplit

SpecQuery == InitQuery /\ [][NextQuery]_vars

----------------------------------------------------------------------------
(* routes/stocks.js, POST /refresh/:symbol served for several clients at once:
   every await of the handler is a point at which another handler runs *)

\* the handlers that wait for an answer of the upstream provider
InFlight(hs) == {h \in Handlers : hs[h].pc \in {"overview", "daily"}}

\* the request arrives: 503 without API key, otherwise refreshSymbolData starts
\* and sends the company-overview request
ServeBegin ==
    /\ phase = "listening"
    /\ \E h \in Handlers, symbol \in Symbols, fullRefresh \in BOOLEAN :
        /\ handlers[h].pc = "idle"
        /\ handlers' = [handlers EXCEPT ![h] =
              IF apiKeyMissing
              THEN [pc |-> "done", symbol |-> symbol, full |-> fullRefresh,
                    status |-> 503, calls |-> 0]
              ELSE [pc |-> "overview", symbol |-> symbol, full |-> fullRefresh,
                    status |-> 0, calls |-> 1]]
    /\ UNCHANGED <<today, apiKeyMissing, tracked_stocks, stock_splits, historical,
                   phase, run, callLog, sinceCall, step, cleanRun, boots, ops,
                   faults, ledger, probe>>

\* the overview request is answered (a failure is only logged), the symbol is
\* added to tracked_stocks and the daily-series request is sent
ServeOverview ==
    /\ \E h \in Handlers :
        /\ handlers[h].pc = "overview"
        /\ tracked_stocks' = addTrackedStock(tracked_stocks, handlers[h].symbol)
        /\ handlers' = [handlers EXCEPT ![h].pc = "daily", ![h].calls = @ + 1]
    /\ UNCHANGED <<today, apiKeyMissing, stock_splits, historical,
                   phase, run, callLog, sinceCall, step, cleanRun, boots, ops,
                   faults, ledger, probe>>

\* the daily-series request is answered: the records are stored, or the
\* provider's error ends the handler with status 500
ServeDaily ==
    /\ \E h \in Handlers, outcome \in FetchOutcomes :
        /\ handlers[h].pc = "daily"
        /\ LET symbol  == handlers[h].symbol
               request == IF handlers[h].full THEN fetchFullHistoricalData(symbol)
                          ELSE fetchRecentData(symbol)
               st == storeHistoricalData(historical, stock_splits, request.data,
                                         FALSE, {}, 1)
           IN  /\ historical' = IF outcome = "ok" THEN st.historical ELSE historical
               /\ handlers' = [handlers EXCEPT ![h].pc = "done",
                                 ![h].status = IF outcome = "ok" THEN 200 ELSE 500]
    /\ UNCHANGED <<today, apiKeyMissing, tracked_stocks, stock_splits,
                   phase, run, callLog, sinceCall, step, cleanRun, boots, ops,
                   faults, ledger, probe>>

\* res.json / res.status(...).json: the response is sent
ServeRespond ==
    /\ \E h \in Handlers :
        /\ handlers[h].pc = "done"
        /\ handlers' = [handlers EXCEPT ![h] = IdleHandler]
    /\ UNCHANGED <<today, apiKeyMissing, tracked_stocks, stock_splits, historical,
                   phase, run, callLog, sinceCall, step, cleanRun, boots, ops,
                   faults, ledger, probe>>

InitServe ==
    /\ today = 1
    /\ apiKeyMissing \in BOOLEAN
    /\ \/ /\ tracked_stocks = [s \in Symbols |-> NoRow]
          /\ historical = EmptyStore
       \/ /\ tracked_stocks = [s \in Symbols |->
                                  [last_data_refresh |-> 0, last_split_check |-> 0]]
          /\ historical = InitializedStore
    /\ stock_splits = SeedSplits
    /\ phase = "listening"
    /\ run = IdleRun
    /\ callLog = <<>>
    /\ sinceCall = "none"
    /\ step = NoStep
    /\ cleanRun = 0
    /\ boots = 0
    /\ ops = 0
    /\ faults = 0
    /\ ledger = NoLedger
    /\ probe = NoStep
    /\ handlers = NoHandlers

NextServe == ServeBegin \/ ServeOverview \/ ServeDaily \/ ServeRespond

SpecServe == InitServe /\ [][NextServe]_vars

----------------------------------------------------------------------------
(* index.js startup(): the price service check, the startup refresh, the
   listen call.  `probe` holds the answer of priceService.isAvailable(). *)

NotChecked == [op |-> "none"]

ListensAfterMutant(available, success) == available /\ success

\* startup() reaches app.listen whatever isAvailable() answered and whatever
\* performStartupRefresh() returned: neither result is tested
ListensAfter(available, success) == TRUE

\* priceService.isAvailable(): true on an ok answer of /health, false on any
\* other answer and on a failed request
PriceCheck ==
    /\ phase = "boot" /\ probe = NotChecked
    /\ \E available \in BOOLEAN : probe' = [op |-> "price", available |-> available]
    /\ UNCHANGED <<today, apiKeyMissing, tracked_stocks, stock_splits, historical,
                   phase, run, callLog, sinceCall, step, cleanRun, boots, ops,
                   faults, ledger, handlers>>

\* await startupRefreshService.performStartupRefresh(), entered after the check
StartupBegin == probe # NotChecked /\ Boot

\* app.listen, after performStartupRefresh has returned
Listen ==
    /\ probe # NotChecked
    /\ ListensAfter(probe.available, run.listed)
    /\ StartupDone

InitLive ==
    /\ today = 1
    /\ apiKeyMissing \in BOOLEAN
    /\ \/ /\ tracked_stocks = [s \in Symbols |-> NoRow]
          /\ historical = EmptyStore
       \/ /\ tracked_stocks = [s \in Symbols |->
                                  [last_data_refresh |-> 0, last_split_check |-> 0]]
          /\ historical = InitializedStore
    /\ stock_splits = SeedSplits
    /\ phase = "boot"
    /\ run = IdleRun
    /\ callLog = <<>>
    /\ sinceCall = "none"
    /\ step = NoStep
    /\ cleanRun = 0
    /\ boots = 0
    /\ ops = 0
    /\ faults = 0
    /\ ledger = NoLedger
    /\ probe = NotChecked
    /\ handlers = NoHandlers

NextLive == PriceCheck \/ StartupBegin \/ DataStep \/ SplitStep \/ Listen

\* every step of startup() is the continuation of an awaited promise; the
\* event loop runs it once the promise settles
SpecLive == InitLive /\ [][NextLive]_vars /\ WF_vars(NextLive)

----------------------------------------------------------------------------
(* queryService.js getQueryTemplates: the volatility template, evaluated on
   series of small closing prices.  A rational is <<numerator, denominator>>
   with a positive denominator. *)

MaxClose == 4
MaxSeries == 3

Abs(x) == IF x < 0 THEN 0 - x ELSE x

NormS(f) == LET g == Gcd(Abs(f[1]), f[2]) IN <<f[1] \div g, f[2] \div g>>

FAdd(a, b) == NormS(<<a[1] * b[2] + b[1] * a[2], a[2] * b[2]>>)

FSquare(a) == NormS(<<a[1] * a[1], a[2] * a[2]>>)

\* the rows of a query, newest first; only `close` is read by the template
RECURSIVE CloseSeries(_)
CloseSeries(n) ==
    IF n = 0 THEN {<<>>}
    ELSE LET shorter == CloseSeries(n - 1)
         IN  shorter \cup {<<[date |-> Len(b) + 1, close |-> c]>> \o b :
                              b \in {x \in shorter : Len(x) = n - 1}, c \in 1..MaxClose}

\* (data[$i].close - data[$i+1].close) / data[$i+1].close, $i counted from 0
Change(data, i) == NormS(<<data[i + 1].close - data[i + 2].close, data[i + 2].close>>)

\* $filter(data, function($v, $i) { $i < $count(data)-1 })
FilterIndexes(data) == {i \in 0..(Len(data) - 1) : i < Len(data) - 1}

RECURSIVE FSum(_, _)
FSum(q, S) ==
    IF S = {} THEN <<0, 1>>
    ELSE LET i == CHOOSE x \in S : TRUE IN FAdd(q[i], FSum(q, S \ {i}))

\* $average(...)
Average(q, S) ==
    LET t == FSum(q, S) IN NormS(<<t[1], t[2] * Cardinality(S)>>)

\* $sqrt($average($map(..., function($v, $i) { $power(change, 2) }))) * 100:
\* the value is sqrt(q) * 100 for the rational q held in `sqrt`; of a series
\* with fewer than two rows the filter selects nothing and the value is undefined
Volatility(data) ==
    LET idx == FilterIndexes(data)
        sq  == [i \in idx |-> FSquare(Change(data, i))]
    IN  IF idx = {} THEN [undefined |-> TRUE]
        ELSE [sqrt |-> Average(sq, idx), times |-> 100]

VolUnchanged ==
    UNCHANGED <<today, apiKeyMissing, tracked_stocks, stock_splits, historical,
                phase, run, callLog, sinceCall, step, cleanRun, boots, ops,
                faults, ledger, handlers>>

\* expression.evaluate(historicalData) for the volatility template
VolEvaluate ==
    /\ probe.op = "series"
    /\ probe' = [op |-> "volatility", data |-> probe.data,
                 value |-> Volatility(probe.data)]
    /\ VolUnchanged

InitVol ==
    /\ today = 1
    /\ apiKeyMissing = FALSE
    /\ tracked_stocks = [s \in Symbols |-> NoRow]
    /\ historical = EmptyStore
    /\ stock_splits = SeedSplits
    /\ phase = "listening"
    /\ run = IdleRun
    /\ callLog = <<>>
    /\ sinceCall = "none"
    /\ step = NoStep
    /\ cleanRun = 0
    /\ boots = 0
    /\ ops = 0
    /\ faults = 0
    /\ ledger = NoLedger
    /\ probe \in {[op |-> "series", data |-> d] :
                     d \in CloseSeries(MaxSeries) \ {<<>>}}
    /\ handlers = NoHandlers

NextVol == VolEvaluate

SpecVol == InitVol /\ [][NextVol]_vars

----------------------------------------------------------------------------
(* Properties *)

\* the dates of the splits of `symbol` that lie strictly after `date`
SplitsAfter(reg, symbol, date) ==
    {d \in Dates : d > date /\ reg[symbol][d] # NoSplit}

\* the product of the ratios registered for `symbol` on the dates in S
RECURSIVE RatioProduct(_, _, _)
RatioProduct(reg, symbol, S) ==
    IF S = {} THEN One
    ELSE LET d == CHOOSE x \in S : TRUE
         IN  FMul(reg[symbol][d], RatioProduct(reg, symbol, S \ {d}))

SingleSymbol(batch) ==
    \A i \in 1..Len(batch) : batch[i].symbol = batch[1].symbol

\* C1: when the registry is read, the factor returned by getSplitAdjustmentFactor
\* for (symbol, date), and the factor adjustStockRecords attaches to each record
\* of a batch of one symbol, is the product of the ratios of exactly the splits
\* of that symbol dated strictly after the date (1.0 when there is none); a split
\* dated on the record's own date does not enter the product.
C1_FactorIsProductOfLaterSplits ==
    /\ (probe.op = "factor" /\ ~probe.regFail) =>
          probe.factor = RatioProduct(stock_splits, probe.symbol,
                             SplitsAfter(stock_splits, probe.symbol, probe.date))
    /\ (probe.op = "batch" /\ ~probe.regFail /\ SingleSymbol(probe.batch)) =>
          \A i \in 1..Len(probe.batch) :
              probe.out[i].adjustment_factor =
                  RatioProduct(stock_splits, probe.batch[i].symbol,
                      SplitsAfter(stock_splits, probe.batch[i].symbol,
                                  probe.batch[i].date))

\* a factor was asked for the very date of a split while a later split exists
C1_Witness ==
    /\ probe.op = "factor" /\ ~probe.regFail
    /\ stock_splits[probe.symbol][probe.date] # NoSplit
    /\ SplitsAfter(stock_splits, probe.symbol, probe.date) # {}
    /\ probe.factor # One

\* the row the store would hold for (symbol, date) if it were adjusted with the
\* splits now in the registry
AnchoredRow(reg, symbol, date) ==
    StoredRow(ApplyFactor(RawRecord(symbol, date),
                  RatioProduct(reg, symbol, SplitsAfter(reg, symbol, date))))

\* C2: every persisted row equals the raw record adjusted by the product of the
\* ratios of the splits now registered for its symbol after its date.
C2_RowsAnchoredToRegistry ==
    \A s \in Symbols, d \in Dates :
        historical[s][d] # NoRow => historical[s][d] = AnchoredRow(stock_splits, s, d)

\* C3: a step of the startup run on a symbol whose two timestamps both equal
\* today issues no upstream call and leaves the stored rows, the registry and
\* the timestamps as they were.
C3_FreshSymbolSkipped ==
    [][(/\ phase = "startup" /\ phase' = "startup"
        /\ run.queue # <<>>
        /\ Fresh(tracked_stocks, Head(run.queue), today))
       => /\ callLog' = callLog
          /\ historical' = historical
          /\ stock_splits' = stock_splits
          /\ tracked_stocks' = tracked_stocks]_vars

\* the run has gone through both halves of refreshSymbol for a fresh symbol
C3_Witness ==
    /\ phase = "startup"
    /\ step.op = "splits" /\ step.fresh /\ step.lookup = "ok" /\ ~step.needed
    /\ run.results # <<>>
    /\ run.results[Len(run.results)] = Result(step.symbol)

C5_NoCallsAfterCleanRun ==
    (phase = "startup" /\ cleanRun = today) => callLog = <<>>

\* C6: the scheduler does not repeat, on the same day, a fetch the provider
\* answered with a rate-limit error.
C6_NoRetryAfterRateLimit ==
    (step.op \in {"data", "splits"} /\ step.limited) => step.calls = <<>>

\* C7: a data refresh the scheduler found necessary (API key configured) makes
\* exactly one call, for the recent window, and sets last_data_refresh only
\* when the fetch succeeded and every fetched record was written.
C7_DataRefreshMarksOnlyAfterStore ==
    (step.op = "data" /\ step.needed /\ step.outcome # "noKey") =>
        /\ step.calls = <<"DAILY_COMPACT">>
        /\ step.marked => (step.outcome = "ok" /\ step.written = step.total)

\* C8: a split check the scheduler found necessary issues exactly one SPLITS
\* call, changes no split already registered, adds splits only for the symbol,
\* reports inserted + skipped = total with inserted the number of new rows, and
\* last_split_check becomes today exactly when the fetch and every insert
\* succeeded and the timestamp update went through.
C8_SplitCheckInsertsOnlyNew ==
    [][(/\ phase = "startup" /\ phase' = "startup"
        /\ run.pc = "splits" /\ run.queue # <<>>
        /\ needsSplitCheck(tracked_stocks, Head(run.queue), today)
        /\ step'.lookup = "ok")
       => LET s   == Head(run.queue)
              new == {d \in Dates : /\ stock_splits[s][d] = NoSplit
                                    /\ stock_splits'[s][d] # NoSplit}
          IN  /\ callLog' = Append(callLog, callLog'[Len(callLog')])
              /\ callLog'[Len(callLog')].symbol = s
              /\ callLog'[Len(callLog')].fn = "SPLITS"
              /\ \A x \in Symbols, d \in Dates :
                    stock_splits[x][d] # NoSplit =>
                        stock_splits'[x][d] = stock_splits[x][d]
              /\ \A x \in Symbols \ {s} : stock_splits'[x] = stock_splits[x]
              /\ step'.inserted = Cardinality(new)
              /\ ~step'.threw => step'.inserted + step'.skipped = step'.total
              /\ step'.marked => (step'.outcome = "ok" /\ ~step'.threw)
              /\ (tracked_stocks'[s].last_split_check = today) <=> step'.marked
              /\ ~step'.marked => tracked_stocks' = tracked_stocks]_vars

\* a split check found the fetched split already registered and completed
C8_Witness ==
    /\ step.op = "splits" /\ step.needed /\ step.marked
    /\ step.total = 1 /\ step.skipped = 1 /\ step.inserted = 0

\* C9: within a startup run or a refreshMultipleSymbols run, every upstream call
\* after the first comes at least one delay after the call before it.
C9_CallsSpaced ==
    phase \in {"startup", "multi"} =>
        \A i \in 2..Len(callLog) : callLog[i].spaced

StepFailed ==
    \/ step.outcome \in {"rateLimit", "error", "noKey"}
    \/ step.written < step.total
    \/ ~step.marked

\* C10: the startup run ends with one result per tracked symbol, in order, a
\* refreshMultipleSymbols run with one result per requested symbol, and a failed
\* lookup, fetch, row write or timestamp update of the data refresh is recorded
\* in the errors of the symbol's result.
C10_FailuresIsolatedAndRecorded ==
    /\ (phase = "startup" /\ run.queue = <<>> /\ run.listed) =>
          /\ Len(run.results) = run.requested
          /\ [i \in 1..Len(run.results) |-> run.results[i].symbol]
                = getTrackedStocks(tracked_stocks)
    /\ (phase = "multi" /\ run.queue = <<>>) => Len(run.results) = run.requested
    /\ (phase = "startup" /\ step.op = "data" /\ step.lookup = "failed") =>
          run.results[Len(run.results)].errors # <<>>
    /\ (phase = "startup" /\ step.op = "data" /\ step.needed /\ StepFailed) =>
          run.cur.errors # <<>>

\* C11: when performStartupRefresh reaches its summary, apiCallsUsed equals the
\* number of upstream calls the run issued, the failed ones included
C11_ApiCallsUsedCountsEveryCall ==
    (phase = "startup" /\ run.pc = "data" /\ run.queue = <<>> /\ run.requested > 0)
        => run.apiCallsUsed = Len(callLog)

\* C12: a tracked symbol's row is never deleted, and its last_data_refresh and
\* last_split_check change only when the scheduler marks them with today's
\* date; manual refreshes, refresh-all, init, add-stock and the registration of
\* a split leave both as they were
C12_TimestampsChangedOnlyByMarking ==
    [][\A s \in Symbols :
          tracked_stocks[s] # NoRow =>
            /\ tracked_stocks'[s] # NoRow
            /\ (phase # "startup" => tracked_stocks'[s] = tracked_stocks[s])
            /\ tracked_stocks'[s].last_data_refresh
                  \in {tracked_stocks[s].last_data_refresh, today}
            /\ tracked_stocks'[s].last_split_check
                  \in {tracked_stocks[s].last_split_check, today}]_vars

\* C13: a split recorded for a (symbol, date) is never updated: adding a split
\* whose (symbol, date) is already registered, through addStockSplit or through
\* fetchAndStoreSplits, leaves the registry as it was
C13_RecordedSplitNeverUpdated ==
    [][\A s \in Symbols, d \in Dates :
          stock_splits[s][d] # NoSplit => stock_splits'[s][d] = stock_splits[s][d]]_vars

\* q is an integer nearest to n / d
Nearest(q, n, d) == 2 * (IF q * d >= n THEN q * d - n ELSE n - q * d) <= d

\* the shape of an adjusted record `out` against the raw `record`, for the
\* factor the record was given
AdjustedShape(record, out) ==
    LET f == out.adjustment_factor IN
    /\ out.symbol = record.symbol /\ out.date = record.date
    /\ IF f = One
       THEN /\ out.open = record.open /\ out.high = record.high
            /\ out.low = record.low /\ out.close = record.close
            /\ out.volume = record.volume
            /\ out.adjusted_close = record.close
            /\ out.split_adjusted = FALSE
       ELSE /\ Nearest(out.open, record.open * f[2], f[1])
            /\ Nearest(out.high, record.high * f[2], f[1])
            /\ Nearest(out.low, record.low * f[2], f[1])
            /\ Nearest(out.close, record.close * f[2], f[1])
            /\ Nearest(out.volume, record.volume * f[1], f[2])
            /\ out.adjusted_close = out.close
            /\ out.split_adjusted = TRUE

\* C14: a record adjusted with factor 1.0 keeps its price and volume fields, has
\* adjusted_close = close, split_adjusted = false and adjustment_factor 1.0;
\* with any other factor each price is the raw price divided by the factor and
\* rounded to 4 decimals, the volume is the raw volume times the factor rounded
\* to an integer, adjusted_close is the adjusted close, split_adjusted is true
\* and adjustment_factor is the factor. adjustStockRecord and adjustStockRecords
\* agree on this, record by record.
C14_AdjustedRecordShape ==
    /\ probe.op = "record" =>
          /\ AdjustedShape(probe.record, probe.out)
          /\ probe.out.adjustment_factor =
                getSplitAdjustmentFactor(stock_splits, probe.record.symbol,
                                         probe.record.date, probe.regFail)
    /\ probe.op = "batch" =>
          /\ Len(probe.out) = Len(probe.batch)
          /\ \A i \in 1..Len(probe.batch) :
                AdjustedShape(probe.batch[i], probe.out[i])

\* a record was adjusted with a factor that does not divide its close price
C14_Witness ==
    /\ probe.op = "record" /\ probe.out.split_adjusted
    /\ probe.out.adjustment_factor[1] > 2
    /\ (probe.record.close * probe.out.adjustment_factor[2])
          % probe.out.adjustment_factor[1] # 0
    /\ probe.out.volume = probe.record.volume * probe.out.adjustment_factor[1]

\* `out` is the raw `record` with the three adjustment fields of an
\* unadjusted record
ReturnedRaw(record, out) ==
    /\ out.symbol = record.symbol /\ out.date = record.date
    /\ out.open = record.open /\ out.high = record.high
    /\ out.low = record.low /\ out.close = record.close
    /\ out.volume = record.volume
    /\ out.adjusted_close = record.close
    /\ out.split_adjusted = FALSE
    /\ out.adjustment_factor = One

\* C20: when the registry cannot be read, adjustment does not abort: the batch
\* comes back with the same length and order, every record raw with
\* adjusted_close = close, split_adjusted = false and adjustment_factor 1.0; the
\* same for a single record
C20_RegistryFailureReturnsRaw ==
    /\ (probe.op = "batch" /\ probe.regFail) =>
          /\ Len(probe.out) = Len(probe.batch)
          /\ \A i \in 1..Len(probe.batch) : ReturnedRaw(probe.batch[i], probe.out[i])
    /\ (probe.op = "record" /\ probe.regFail) =>
          ReturnedRaw(probe.record, probe.out)
    /\ (probe.op = "factor" /\ probe.regFail) => probe.factor = One

\* the registry read failed for a batch of two records that the registered
\* splits would have adjusted
C20_Witness ==
    /\ probe.op = "batch" /\ probe.regFail /\ Len(probe.batch) = 2
    /\ probe.batch[1].date # probe.batch[2].date
    /\ \A i \in 1..2 :
          RatioProduct(stock_splits, probe.batch[i].symbol,
              SplitsAfter(stock_splits, probe.batch[i].symbol,
                          probe.batch[i].date)) # One

\* the rows a write of (symbol, date) made now can carry: the record adjusted
\* with the registered splits, or the raw record when the registry read failed
WrittenNow(symbol, date) ==
    {AnchoredRow(stock_splits, symbol, date),
     StoredRow(Unadjusted(RawRecord(symbol, date)))}

\* C15: the store holds one row per (symbol, date) and that row carries the most
\* recent write of the key: a row changes only in a refresh of its symbol and
\* then holds what that refresh wrote, and after a refresh that wrote every
\* fetched record each fetched date holds the newly written row, whatever row
\* was there before
C15_RowCarriesLatestWrite ==
    [][\A s \in Symbols, d \in Dates :
          /\ historical'[s][d] # historical[s][d] =>
                /\ step'.op \in {"data", "manual"} /\ step'.symbol = s
                /\ historical'[s][d] \in WrittenNow(s, d)
          /\ (/\ step' # step /\ step'.op \in {"data", "manual"}
              /\ step'.symbol = s /\ step'.outcome = "ok"
              /\ step'.written = step'.total
              /\ d > MaxDate - step'.total) =>
                historical'[s][d] \in WrittenNow(s, d)]_vars

\* the scheduler rewrote the recent window of a symbol whose rows had been
\* stored before a split was registered after them
C15_Witness ==
    /\ step.op = "data" /\ step.outcome = "ok"
    /\ step.total = Window /\ step.written = Window
    /\ historical[step.symbol][1] # NoRow
    /\ stock_splits[step.symbol][MaxDate] # NoSplit
    /\ historical[step.symbol][MaxDate - 1]
          = AnchoredRow(stock_splits, step.symbol, MaxDate - 1)
    /\ historical[step.symbol][MaxDate - 1]
          # StoredRow(Unadjusted(RawRecord(step.symbol, MaxDate - 1)))

\* C16: storeHistoricalData reports a record whose key was new as inserted, a
\* record equal to the stored row as skipped and any other as updated; storing
\* again a batch that is already stored reports inserted = 0, updated = 0 and
\* skipped = N
C16_StoreCountersClassifyWrites ==
    (step.op = "manual" /\ step.success /\ step.written = step.total) =>
        /\ step.inserted = step.absent
        /\ step.skipped = step.same
        /\ step.updated = step.total - step.absent - step.same

\* what a batch reports under a key for the outcome of its expression
EntryOf(r) == IF r.ok THEN [value |-> r.value] ELSE [error |-> r.message]

\* C17: executeMultipleQueries on a symbol with data returns success with
\* exactly the requested keys; a key whose expression does not compile or fails
\* holds {error: message}, and every other key holds the value its expression
\* yields when evaluated by itself on the series
C17_BatchIsolatesFailures ==
    (probe.op = "multi" /\ probe.pc = "done" /\ probe.cause = "none") =>
        /\ probe.success
        /\ probe.evaluated = Len(probe.queries)
        /\ \A i \in 1..Len(QueryKeys) :
              IF i <= Len(probe.queries)
              THEN LET alone == Evaluate(probe.queries[i], probe.data)
                   IN  /\ ~alone.ok =>
                            probe.results[QueryKeys[i]] = [error |-> alone.message]
                       /\ alone.ok =>
                            probe.results[QueryKeys[i]] = [value |-> alone.value]
              ELSE probe.results[QueryKeys[i]] = NoEntry

\* a batch of two whose first expression failed and whose second evaluated
C17_Witness ==
    /\ probe.op = "multi" /\ probe.pc = "done" /\ probe.success
    /\ Len(probe.queries) = 2
    /\ ~Evaluate(probe.queries[1], probe.data).ok
    /\ probe.results["second"] = [value |-> MaxHigh(probe.data)]

\* C18: executeMultipleQueries reads the store once per call, and every
\* expression of the batch is evaluated on the series that read returned, also
\* when rows of the symbol are written while the batch is evaluated
C18_BatchEvaluatedOnOneLoad ==
    probe.op = "multi" =>
        /\ probe.loads = 1
        /\ \A i \in 1..(probe.next - 1) :
              probe.results[QueryKeys[i]] = EntryOf(Evaluate(probe.queries[i], probe.data))
        /\ probe.pc = "eval" => probe.data # <<>>

\* a batch of two has returned values of the loaded series although the store
\* now answers the same request with other rows
C18_Witness ==
    /\ probe.op = "multi" /\ probe.pc = "done" /\ probe.success
    /\ Len(probe.queries) = 2
    /\ \A i \in 1..2 :
          LET now == getHistoricalData(historical, probe.symbol,
                         probe.options.startDate, probe.options.endDate,
                         probe.options.limit)
          IN  /\ Evaluate(probe.queries[i], probe.data).ok
              /\ now # <<>>
              /\ Evaluate(probe.queries[i], now) # Evaluate(probe.queries[i], probe.data)

\* the failures of a query other than the lack of rows carry another error
NotNoData(r, symbol) ==
    /\ r.cause = "store" => (~r.success /\ r.error # NoDataError(symbol))
    /\ r.cause = "expression" => (~r.success /\ r.error # NoDataError(symbol))
    /\ r.cause = "none" => r.success

NoSplitsRegistry == [s \in Symbols |-> [d \in Dates |-> NoSplit]]

\* C21: a failed registry read is told to the caller: what adjustStockRecords
\* returns for a batch when the read fails differs from what it returns for the
\* same batch when the symbol simply has no splits
C21_RegistryFailureIsReported ==
    (probe.op = "batch" /\ probe.regFail /\ probe.batch # <<>>) =>
        probe.out # adjustStockRecords(NoSplitsRegistry, probe.batch, FALSE)

\* C22: every record of a batch, also of a batch that holds records of more
\* than one symbol, is adjusted with the splits registered for its own symbol
C22_BatchAdjustsEachSymbolWithItsOwnSplits ==
    (probe.op = "batch" /\ ~probe.regFail) =>
        \A i \in 1..Len(probe.batch) :
            probe.out[i].adjustment_factor =
                RatioProduct(stock_splits, probe.batch[i].symbol,
                    SplitsAfter(stock_splits, probe.batch[i].symbol,
                                probe.batch[i].date))

\* a >= b for two positive rationals
FGeq(a, b) == a[1] * b[2] >= b[1] * a[2]

\* C23: for the splits the registry holds, the cumulative adjustment factor of
\* a symbol does not grow with the date: factor(d1) >= factor(d2) when d1 <= d2
C23_FactorNonIncreasingInDate ==
    (probe.op = "factor" /\ ~probe.regFail) =>
        \A d2 \in Dates :
            probe.date <= d2 =>
                FGeq(probe.factor,
                     getSplitAdjustmentFactor(stock_splits, probe.symbol, d2, FALSE))

\* C30: for a batch whose records all belong to one symbol, adjustStockRecords
\* returns, in the same order, the records adjustStockRecord returns for each
\* record by itself
C30_BatchEqualsRecordByRecord ==
    (probe.op = "batch" /\ SingleSymbol(probe.batch)) =>
        /\ Len(probe.out) = Len(probe.batch)
        /\ \A i \in 1..Len(probe.batch) :
              probe.out[i] = adjustStockRecord(stock_splits, probe.batch[i],
                                               probe.regFail)

\* a batch of one symbol in which one record was adjusted and the other, dated
\* after the splits, was not
C30_Witness ==
    /\ probe.op = "batch" /\ ~probe.regFail
    /\ Len(probe.batch) = 2 /\ SingleSymbol(probe.batch)
    /\ probe.out[1].split_adjusted /\ ~probe.out[2].split_adjusted
    /\ probe.out[1].adjustment_factor \notin {One, <<2, 1>>}

C24_UpstreamCallsSerialized ==
    Cardinality(InFlight(handlers)) <= 1

\* C28: whenever a startup data refresh sets last_data_refresh of a symbol to
\* today, every record of the batch fetched in that refresh has been written:
\* storeHistoricalData rejects if any single row write failed.
C28_MarkedOnlyWhenBatchStored ==
    [][(/\ phase = "startup" /\ phase' = "startup"
        /\ run.pc = "data" /\ run.queue # <<>>
        /\ needsDataRefresh(tracked_stocks, Head(run.queue), today)
        /\ ~needsDataRefresh(tracked_stocks', Head(run.queue), today))
       => /\ step'.op = "data" /\ step'.outcome = "ok"
          /\ step'.written = Len(fetchRecentData(Head(run.queue)).data)]_vars

\* C29: while the upstream API key is not configured no step of the program
\* issues an upstream request, and a manual refresh changes no state.
C29_NoKeyNoUpstreamRequest ==
    [][apiKeyMissing => callLog' = callLog]_vars

\* the call of performStartupRefresh has returned
StartupReturned == run.kind = "startup" /\ run.pc = "data" /\ run.queue = <<>>

\* C27: the server listens only after the price service check and after
\* performStartupRefresh has returned, and it eventually listens, whatever the
\* check answered and whether or not the startup refresh succeeded.
C27_ListensAfterStartupRefresh ==
    /\ [](phase = "listening" => (probe # NotChecked /\ StartupReturned))
    /\ <>(phase = "listening")

C27_Witness ==
    /\ phase = "listening" /\ probe # NotChecked
    /\ ~probe.available /\ ~run.listed

\* the population variance of the close-to-close changes of `data`: the mean
\* of the squared deviations from the mean change
PopulationVariance(data) ==
    LET idx == FilterIndexes(data)
        r   == [i \in idx |-> Change(data, i)]
        m   == Average(r, idx)
        dev == [i \in idx |-> FSquare(FAdd(r[i], <<0 - m[1], m[2]>>))]
    IN  Average(dev, idx)

\* C26: for every series of at least two records the volatility template
\* evaluates to the population standard deviation of the percentage
\* close-to-close changes, sqrt(variance) * 100, with no annualization factor
C26_VolatilityIsPopulationStdDev ==
    (probe.op = "volatility" /\ Len(probe.data) >= 2) =>
        probe.value = [sqrt |-> PopulationVariance(probe.data), times |-> 100]

====
